---- MODULE Spec2Model ----
(***************************************************************************)
(* Model of the command execution and streaming-output pipeline of the     *)
(* Git-Mastery Electron shell (src/src/main.ts) and of the renderer's      *)
(* working-directory tracking (src/unnamed/part_000, preload part_001).    *)
(*                                                                         *)
(* Text is a sequence of characters.  A character is a one-letter string;  *)
(* the control characters and the two characters that TLA+ would need an   *)
(* escape for have names (LF, CR, TAB, DQ, BSL).                           *)
(*                                                                         *)
(* main.ts holds two streaming 'execute-command' handlers: the one at      *)
(* lines 342-484 (colon split commented out, executable resolved by        *)
(* getGitMasteryExecutable) and the one at lines 570-698 (colon split      *)
(* active).  Both are modelled; an execution records which one ran it.     *)
(*                                                                         *)
(* Runtime contract assumed for child_process (Node.js documentation):     *)
(* 'data' is delivered only before 'close'; 'error' is delivered at most   *)
(* once and only before 'close'; 'close' is delivered at most once and may *)
(* or may not follow 'error'.                                              *)
(***************************************************************************)
EXTENDS Integers, Sequences, FiniteSets, TLC

LF == "LF"
CR == "CR"
DQ == "DQ"
BSL == "BSL"

\* ------------------------------------------------------------------ bounds
\* Executions started in the streaming specification (Spec).
MaxExec == 1
\* 'data' callbacks delivered in the streaming specification.
MaxChunks == 2
\* Executions started in the command-resolution specification (SpecDispatch).
MaxDispatch == 1
\* Longest command text given to the tokenizer.
MaxCmdLen == 4
\* Commands handled by the renderer in SpecHint and SpecPath.
MaxUICommands == 2
\* Executions whose processes run at the same time in SpecOverlap.
MaxOverlap == 2
\* Clicks on the install and verify buttons in SpecInstall.
MaxClicks == 3

\* ------------------------------------------------------------ text helpers
Gitmastery == <<"g", "i", "t", "m", "a", "s", "t", "e", "r", "y">>
InteractiveSetup == <<"g", "i", "t", "m", "a", "s", "t", "e", "r", "y", " ", "s", "e", "t", "u", "p">>
MyDir == <<"m", "y", "-", "d", "i", "r">>
CmdSetupMyDir == <<"g", "i", "t", "m", "a", "s", "t", "e", "r", "y", " ", "s", "e", "t", "u", "p", ":", "m", "y", "-", "d", "i", "r">>
CmdSetupColons == <<"g", "i", "t", "m", "a", "s", "t", "e", "r", "y", " ", "s", "e", "t", "u", "p", ":", "a", ":", "b">>
CmdSetupEmpty == <<"g", "i", "t", "m", "a", "s", "t", "e", "r", "y", " ", "s", "e", "t", "u", "p", ":">>
CmdGitRemote == <<"g", "i", "t", " ", "r", "e", "m", "o", "t", "e", " ", "a", "d", "d", " ", "o", "r", "i", "g", "i", "n", " ", "h", "t", "t", "p", "s", ":", "/", "/", "e", "x", "a", "m", "p", "l", "e", ".", "c", "o", "m", "/", "r", ".", "g", "i", "t">>
CmdEchoHello == <<"e", "c", "h", "o", " ", "h", "e", "l", "l", "o">>
BundledExe == <<"C", ":", BSL, "a", "p", "p", BSL, "g", "i", "t", "m", "a", "s", "t", "e", "r", "y", ".", "e", "x", "e">>
CustomExe == <<"C", ":", BSL, "m", "y", " ", "t", "o", "o", "l", "s", BSL, "g", "m", ".", "e", "x", "e">>
DirA == <<"/", "w", "/", "a">>
DirB == <<"/", "w", "/", "b">>

\* The documented whitelist of interactive commands (DEVELOPER.md).
interactiveCommands == {InteractiveSetup}

\* Inputs of the model.
Commands == {CmdSetupMyDir, CmdSetupColons, CmdSetupEmpty, CmdGitRemote, CmdEchoHello}
Dirs == {DirA, DirB}
\* An exit code as 'close' reports it: a number, or null on signal termination.
ExitCode(n) == [isNull |-> FALSE, n |-> n]

NullExit == [isNull |-> TRUE, n |-> 0]

ExitCodes == {ExitCode(0), ExitCode(1), NullExit}
Chunks == { <<"a">>, <<"b", CR>>, <<LF, LF, "c", LF, "d">> }
Platforms == {"darwin", "win32"}

\* An optional text: JavaScript null/undefined versus a string.
Null == [some |-> FALSE, val |-> <<>>]

Some(v) == [some |-> TRUE, val |-> v]

\* JavaScript truthiness of (string | null): null and '' are falsy.
Truthy(o) == o.some /\ o.val # <<>>

\* a || b on (string | null).
OrElse(a, b) == IF Truthy(a) THEN a ELSE b

StartsWith(s, p) == Len(s) >= Len(p) /\ SubSeq(s, 1, Len(p)) = p

\* String.prototype.split(sep) for a one-character separator.
RECURSIVE SplitOnAcc(_, _, _, _)
SplitOnAcc(s, sep, cur, acc) ==
  IF s = <<>> THEN Append(acc, cur)
  ELSE IF Head(s) = sep THEN SplitOnAcc(Tail(s), sep, <<>>, Append(acc, cur))
  ELSE SplitOnAcc(Tail(s), sep, Append(cur, Head(s)), acc)

SplitOn(s, sep) == SplitOnAcc(s, sep, <<>>, <<>>)

\* Array.prototype.join(sep) for a one-character separator.
RECURSIVE JoinWith(_, _)
JoinWith(parts, sep) ==
  IF parts = <<>> THEN <<>>
  ELSE IF Len(parts) = 1 THEN parts[1]
  ELSE parts[1] \o <<sep>> \o JoinWith(Tail(parts), sep)

\* text.split(/\r?\n/): the pattern matches CR LF as one terminator, else LF.
RECURSIVE SplitLinesAcc(_, _, _)
SplitLinesAcc(s, cur, acc) ==
  IF s = <<>> THEN Append(acc, cur)
  ELSE IF Head(s) = CR /\ Len(s) >= 2 /\ s[2] = LF
       THEN SplitLinesAcc(Tail(Tail(s)), <<>>, Append(acc, cur))
  ELSE IF Head(s) = LF THEN SplitLinesAcc(Tail(s), <<>>, Append(acc, cur))
  ELSE SplitLinesAcc(Tail(s), Append(cur, Head(s)), acc)

SplitLines(s) == SplitLinesAcc(s, <<>>, <<>>)

\* lines.forEach(line => { if (line) send(line) }): the lines that are sent.
RECURSIVE NonEmptyLines(_)
NonEmptyLines(lines) ==
  IF lines = <<>> THEN <<>>
  ELSE IF Head(lines) # <<>> THEN <<Head(lines)>> \o NonEmptyLines(Tail(lines))
  ELSE NonEmptyLines(Tail(lines))

\* Mutants of FeedBuffer: the remainder is dropped; the chunk is split on its
\* own and the buffer glued to its first segment; the buffer is never popped.
FeedBufferDropRemainder(buffer, text) ==
  LET lines == SplitLines(buffer \o text)
  IN [buffer |-> <<>>,
      lines  |-> NonEmptyLines(SubSeq(lines, 1, Len(lines) - 1))]

FeedBufferPerChunk(buffer, text) ==
  LET parts == SplitLines(text)
      lines == <<buffer \o parts[1]>> \o Tail(parts)
  IN [buffer |-> lines[Len(lines)],
      lines  |-> NonEmptyLines(SubSeq(lines, 1, Len(lines) - 1))]

FeedBufferKeepAll(buffer, text) ==
  LET lines == SplitLines(buffer \o text)
  IN [buffer |-> buffer \o text,
      lines  |-> NonEmptyLines(SubSeq(lines, 1, Len(lines) - 1))]

\* One 'data' callback on a buffer: buffer += text; lines = buffer.split();
\* buffer = lines.pop() || ''; the remaining lines are sent if non-empty.
FeedBuffer(buffer, text) ==
  LET lines == SplitLines(buffer \o text)
  IN [buffer |-> lines[Len(lines)],
      lines  |-> NonEmptyLines(SubSeq(lines, 1, Len(lines) - 1))]

\* ------------------------------------------------------ command resolution
\* The colon split of the handler at main.ts:570: parts = command.split(':').
ColonSplit(command) ==
  IF \E i \in 1..Len(command) : command[i] = ":"
  THEN LET parts == SplitOn(command, ":")
       IN [baseCommand |-> parts[1],
           userInput   |-> Some(JoinWith(Tail(parts), ":"))]
  ELSE [baseCommand |-> command, userInput |-> Null]

\* The handler at main.ts:342 has the split commented out.
NoSplit(command) == [baseCommand |-> command, userInput |-> Null]

getGitMasteryExecutablePlatformFirst(custom, plat) ==
  IF plat = "darwin" THEN Gitmastery
  ELSE IF Truthy(custom) THEN custom.val
  ELSE BundledExe

\* getGitMasteryExecutable()
getGitMasteryExecutable(custom, plat) ==
  IF Truthy(custom) THEN custom.val
  ELSE IF plat = "darwin" THEN Gitmastery
  ELSE BundledExe

\* customExePath || path.join(__dirname, '../gitmastery.exe')
LegacyExePath(custom) == IF Truthy(custom) THEN custom.val ELSE BundledExe

\* baseCommand.replace(/^gitmastery/, `"${exePath}"`)
ReplaceGitmastery(baseCommand, exePath) ==
  IF StartsWith(baseCommand, Gitmastery)
  THEN <<DQ>> \o exePath \o <<DQ>>
       \o SubSeq(baseCommand, Len(Gitmastery) + 1, Len(baseCommand))
  ELSE baseCommand

\* The quote-aware scanner.
RECURSIVE ScanArgs(_, _, _, _)
ScanArgs(s, currentArg, inQuotes, args) ==
  IF s = <<>>
  THEN IF currentArg # <<>> THEN Append(args, currentArg) ELSE args
  ELSE IF Head(s) = DQ THEN ScanArgs(Tail(s), currentArg, ~inQuotes, args)
  ELSE IF Head(s) = " " /\ ~inQuotes
       THEN IF currentArg # <<>>
            THEN ScanArgs(Tail(s), <<>>, inQuotes, Append(args, currentArg))
            ELSE ScanArgs(Tail(s), currentArg, inQuotes, args)
  ELSE ScanArgs(Tail(s), Append(currentArg, Head(s)), inQuotes, args)

TokenizeSplitEverySpace(commandWithPath) ==
  NonEmptyLines(SplitOn(SelectSeq(commandWithPath, LAMBDA c : c # DQ), " "))

Tokenize(commandWithPath) == ScanArgs(commandWithPath, <<>>, FALSE, <<>>)

ResolveCwdCustomFirst(workingDirectory, customDir) ==
  OrElse(customDir, OrElse(workingDirectory, Null))

\* workingDirectory || customWorkingDir || undefined
ResolveCwd(workingDirectory, customDir) == OrElse(workingDirectory, OrElse(customDir, Null))

\* What the handler computes up to spawn(), and the stdin write after it.
\* process.env of the main process: the search path an application started
\* from the desktop inherits.
ProcessEnv == [PATH |-> <<"/usr/bin", "/bin", "/usr/local/bin">>]

Dispatch(split, exePath, command, workingDirectory, customDir) ==
  LET tokens == Tokenize(ReplaceGitmastery(split.baseCommand, exePath))
      wrote  == Truthy(split.userInput)
  IN [command      |-> command,
      baseCommand  |-> split.baseCommand,
      userInput    |-> split.userInput,
      commandWithPath |-> ReplaceGitmastery(split.baseCommand, exePath),
      executable   |-> IF tokens # <<>> /\ tokens[1] # <<>> THEN tokens[1] ELSE exePath,
      args         |-> IF tokens # <<>> THEN Tail(tokens) ELSE <<>>,
      workingDirectory |-> workingDirectory,
      cwd          |-> ResolveCwd(workingDirectory, customDir),
      env          |-> ProcessEnv,
      stdinWrites  |-> IF wrote THEN <<split.userInput.val \o <<LF>>>> ELSE <<>>,
      stdinEnded   |-> wrote]

\* ------------------------------------------------- renderer: pure functions
TAB == "TAB"

\* The characters the regular-expression class \s matches, among those used.
IsSpace(c) == c \in {" ", TAB, CR, LF}

\* The characters the regular-expression dot does not match.
IsLineTerminator(c) == c \in {CR, LF}

Letters ==
  {"a", "b", "c", "d", "e", "f", "g", "h", "i", "j", "k", "l", "m", "n", "o", "p", "q",
   "r", "s", "t", "u", "v", "w", "x", "y", "z",
   "A", "B", "C", "D", "E", "F", "G", "H", "I", "J", "K", "L", "M", "N", "O", "P", "Q",
   "R", "S", "T", "U", "V", "W", "X", "Y", "Z"}

\* String.prototype.trim()
RECURSIVE TrimLeft(_)
TrimLeft(s) == IF s # <<>> /\ IsSpace(Head(s)) THEN TrimLeft(Tail(s)) ELSE s

RECURSIVE TrimRight(_)
TrimRight(s) ==
  IF s # <<>> /\ IsSpace(s[Len(s)]) THEN TrimRight(SubSeq(s, 1, Len(s) - 1)) ELSE s

Trim(s) == TrimRight(TrimLeft(s))

\* The text s from index i on.
From(s, i) == SubSeq(s, i, Len(s))

\* Case-insensitive match of the two letters `cd` at index p of s.
CdAt(s, p) == p + 1 <= Len(s) /\ s[p] \in {"c", "C"} /\ s[p + 1] \in {"d", "D"}

\* Case-insensitive match of `INFO` at index i of s.
InfoAt(s, i) ==
  /\ i + 3 <= Len(s)
  /\ s[i] \in {"i", "I"} /\ s[i + 1] \in {"n", "N"}
  /\ s[i + 2] \in {"f", "F"} /\ s[i + 3] \in {"o", "O"}

\* First index >= i of s that holds no \s character (Len(s) + 1 if none).
RECURSIVE SkipSpace(_, _)
SkipSpace(s, i) == IF i <= Len(s) /\ IsSpace(s[i]) THEN SkipSpace(s, i + 1) ELSE i

\* The regular expression  cd\s+(.+)$  (case-insensitive, no multiline flag)
\* matched with `cd` at index p: the captured group, or Null.  \s+ is greedy
\* and gives characters back only when nothing but white space follows; the
\* group runs to the end of s and the dot matches no line terminator.  The
\* lazy (.+?)$ of parseOutputForCd captures the same text.
CdGroupAt(s, p) ==
  IF ~(CdAt(s, p) /\ p + 2 <= Len(s) /\ IsSpace(s[p + 2])) THEN Null
  ELSE LET q == SkipSpace(s, p + 2)
           g == IF q <= Len(s) THEN From(s, q)
                ELSE IF q - (p + 2) >= 2 THEN From(s, Len(s)) ELSE <<>>
       IN IF g # <<>> /\ \A k \in 1..Len(g) : ~IsLineTerminator(g[k])
          THEN Some(g) ELSE Null

\* targetPath.trim() and the removal of one pair of surrounding quotes.
StripQuotes(group) ==
  LET t == Trim(group)
  IN IF t # <<>> /\ ((t[1] = DQ /\ t[Len(t)] = DQ) \/ (t[1] = "'" /\ t[Len(t)] = "'"))
     THEN SubSeq(t, 2, Len(t) - 1)
     ELSE t

parseCdCommandNever(command) == Null

\* parseCdCommand(command): /^cd\s+(.+)$/i on the trimmed command.
parseCdCommand(command) ==
  LET g == CdGroupAt(Trim(command), 1)
  IN IF g.some THEN Some(StripQuotes(g.val)) ELSE Null

\* The match of /(?:INFO\s+)?cd\s+(.+?)$/i that starts at index i of line.
HintGroupAt(line, i) ==
  LET viaInfo == IF InfoAt(line, i) /\ i + 4 <= Len(line) /\ IsSpace(line[i + 4])
                 THEN CdGroupAt(line, SkipSpace(line, i + 4))
                 ELSE Null
  IN IF viaInfo.some THEN viaInfo ELSE CdGroupAt(line, i)

\* parseOutputForCd(line): line.match(...) finds the leftmost match.
parseOutputForCd(line) ==
  LET starts == {i \in 1..Len(line) : HintGroupAt(line, i).some}
  IN IF starts = {} THEN Null
     ELSE LET i == CHOOSE i \in starts : \A k \in starts : i <= k
          IN Some(StripQuotes(HintGroupAt(line, i).val))

\* String.prototype.split(/[\\\/]/)
RECURSIVE SplitPathAcc(_, _, _)
SplitPathAcc(s, cur, acc) ==
  IF s = <<>> THEN Append(acc, cur)
  ELSE IF Head(s) \in {"/", BSL} THEN SplitPathAcc(Tail(s), <<>>, Append(acc, cur))
  ELSE SplitPathAcc(Tail(s), Append(cur, Head(s)), acc)

SplitPath(s) == SplitPathAcc(s, <<>>, <<>>)

IsAbsolutePathUnixOnly(t) == Len(t) >= 1 /\ t[1] = "/"

\* /^[a-zA-Z]:\\/.test(t) || t.startsWith('\\\\') || t.startsWith('/')
IsAbsolutePath(t) ==
  \/ Len(t) >= 3 /\ t[1] \in Letters /\ t[2] = ":" /\ t[3] = BSL
  \/ Len(t) >= 2 /\ t[1] = BSL /\ t[2] = BSL
  \/ Len(t) >= 1 /\ t[1] = "/"

RECURSIVE ApplyPartsKeepFirst(_, _)
ApplyPartsKeepFirst(parts, targetParts) ==
  IF targetParts = <<>> THEN parts
  ELSE LET part == Head(targetParts)
       IN IF part = <<".", ".">>
          THEN ApplyPartsKeepFirst(IF Len(parts) <= 1 THEN parts
                                   ELSE SubSeq(parts, 1, Len(parts) - 1),
                                   Tail(targetParts))
          ELSE IF part # <<".">> /\ part # <<>>
               THEN ApplyPartsKeepFirst(Append(parts, part), Tail(targetParts))
          ELSE ApplyPartsKeepFirst(parts, Tail(targetParts))

\* The loop over targetParts: '..' pops, '.' and '' are skipped, else push.
RECURSIVE ApplyParts(_, _)
ApplyParts(parts, targetParts) ==
  IF targetParts = <<>> THEN parts
  ELSE LET part == Head(targetParts)
       IN IF part = <<".", ".">>
          THEN ApplyParts(IF parts = <<>> THEN parts ELSE SubSeq(parts, 1, Len(parts) - 1),
                          Tail(targetParts))
          ELSE IF part # <<".">> /\ part # <<>>
               THEN ApplyParts(Append(parts, part), Tail(targetParts))
          ELSE ApplyParts(parts, Tail(targetParts))

\* resolvePath(targetPath, basePath)
resolvePath(targetPath, basePath) ==
  LET separator == IF \E i \in 1..Len(basePath) : basePath[i] = "/" THEN "/" ELSE BSL
  IN IF IsAbsolutePath(targetPath) THEN targetPath
     ELSE JoinWith(ApplyParts(SplitPath(basePath), SplitPath(targetPath)), separator)

\* ------------------------------------------------------------------- state
VARIABLES
  platform,          \* process.platform
  mainWindow,        \* main.ts: let mainWindow (TRUE while the window exists)
  customExePath,     \* main.ts: let customExePath
  customWorkingDir,  \* main.ts: let customWorkingDir
  execs,             \* one record per execute-command invocation, in order
  sent,              \* event.sender.send(...) calls, in order
  ui                 \* renderer: tracked directory, history, IPC listeners

vars == <<platform, mainWindow, customExePath, customWorkingDir, execs, sent, ui>>

Running(e) == e \in 1..Len(execs) /\ ~execs[e].closed

\* Number of 'data' callbacks delivered so far, over all executions.
RECURSIVE ChunksOf(_)
ChunksOf(xs) == IF xs = <<>> THEN 0 ELSE Head(xs).chunks + ChunksOf(Tail(xs))

\* The closure state of a fresh invocation.
NewExec(handler, d) ==
  [handler      |-> handler,
   command      |-> d.command,
   baseCommand  |-> d.baseCommand,
   userInput    |-> d.userInput,
   commandWithPath |-> d.commandWithPath,
   executable   |-> d.executable,
   args         |-> d.args,
   workingDirectory |-> d.workingDirectory,
   cwd          |-> d.cwd,
   env          |-> d.env,
   stdinWrites  |-> d.stdinWrites,
   stdinEnded   |-> d.stdinEnded,
   stdoutBuffer |-> <<>>,
   stderrBuffer |-> <<>>,
   hasError     |-> FALSE,
   errored      |-> FALSE,
   closed       |-> FALSE,
   exitCode     |-> NullExit,
   resolved     |-> FALSE,
   resolvedAt   |-> 0,
   stdoutText   |-> <<>>,
   stderrText   |-> <<>>,
   chunks       |-> 0]

LineEventsReversed(e, stream, at, lines) ==
  [i \in 1..Len(lines) |->
     [id |-> e, channel |-> "command-output-line", stream |-> stream, at |-> at,
      line |-> lines[Len(lines) + 1 - i], result |-> "none"]]

\* event.sender.send('command-output-line', line), one per line.  The fields
\* id, stream and at are not on the wire: they record which execution, which
\* stream and which callback sent the event.
LineEvents(e, stream, at, lines) ==
  [i \in 1..Len(lines) |->
     [id |-> e, channel |-> "command-output-line", stream |-> stream, at |-> at,
      line |-> lines[i], result |-> "none"]]

\* event.sender.send('command-complete', result)
CompleteEvent(e, at, result) ==
  [id |-> e, channel |-> "command-complete", stream |-> "none", at |-> at,
   line |-> <<>>, result |-> result]

\* The state of a renderer whose page has just been loaded; the events sent
\* before belong to an earlier page.
InitialUI(sentBefore) ==
  [currentWorkingDirectory |-> <<>>,
   initialized |-> FALSE,
   history     |-> <<>>,
   listeners   |-> <<>>,
   delivered   |-> sentBefore,
   lastChange  |-> "none",
   currentPlatform |-> "",
   isGitMasteryInstalled |-> FALSE,
   disabled    |-> {},
   inputPending |-> 0]

Init ==
  /\ platform \in Platforms
  /\ mainWindow = TRUE
  /\ customExePath = Null
  /\ customWorkingDir = Null
  /\ execs = <<>>
  /\ sent = <<>>
  /\ ui = InitialUI(0)

\* What a select-file or select-folder invocation returns, given the result
\* of the dialog: null without a window, on cancel and on an empty selection,
\* else the first path.
DialogReturnFirstPath(canceled, filePaths) ==
  IF ~mainWindow \/ filePaths = <<>> THEN Null ELSE Some(filePaths[1])

DialogReturn(canceled, filePaths) ==
  IF ~mainWindow THEN Null
  ELSE IF canceled \/ filePaths = <<>> THEN Null
  ELSE Some(filePaths[1])

\* select-file handler (dialog result: canceled flag and filePaths).
SelectFile(canceled, filePaths) ==
  /\ customExePath' = IF DialogReturn(canceled, filePaths).some
                      THEN DialogReturn(canceled, filePaths)
                      ELSE customExePath
  /\ UNCHANGED <<platform, mainWindow, customWorkingDir, execs, sent, ui>>

\* select-folder handler.
SelectFolder(canceled, filePaths) ==
  /\ customWorkingDir' = IF DialogReturn(canceled, filePaths).some
                         THEN DialogReturn(canceled, filePaths)
                         ELSE customWorkingDir
  /\ UNCHANGED <<platform, mainWindow, customExePath, execs, sent, ui>>

\* mainWindow.on('closed')
WindowClosed ==
  /\ mainWindow
  /\ mainWindow' = FALSE
  /\ UNCHANGED <<platform, customExePath, customWorkingDir, execs, sent, ui>>

\* app.on('activate') on darwin with no window left: createWindow() loads
\* the page anew.
Activate ==
  /\ platform = "darwin"
  /\ ~mainWindow
  /\ mainWindow' = TRUE
  /\ ui' = InitialUI(Len(sent))
  /\ UNCHANGED <<platform, customExePath, customWorkingDir, execs, sent>>

\* execute-command handler, main.ts:342-484 (synchronous part).
StartExecution(command, workingDirectory) ==
  NewExec("split-disabled",
          Dispatch(NoSplit(command),
                   getGitMasteryExecutable(customExePath, platform),
                   command, workingDirectory, customWorkingDir))

ExecuteCommand(command, workingDirectory) ==
  /\ execs' = Append(execs, StartExecution(command, workingDirectory))
  /\ UNCHANGED <<platform, mainWindow, customExePath, customWorkingDir, sent, ui>>

\* execute-command handler, main.ts:570-698 (synchronous part).
ExecuteCommandColonSplit(command, workingDirectory) ==
  /\ execs' = Append(execs,
       NewExec("colon-split",
               Dispatch(ColonSplit(command), LegacyExePath(customExePath),
                        command, workingDirectory, customWorkingDir)))
  /\ UNCHANGED <<platform, mainWindow, customExePath, customWorkingDir, sent, ui>>

\* childProcess.stdout.on('data')
StdoutDataSharedBuffer(e, text) ==
  /\ Running(e)
  /\ ChunksOf(execs) < MaxChunks
  /\ LET f == FeedBuffer(execs[1].stdoutBuffer, text)
     IN /\ execs' = [execs EXCEPT ![1].stdoutBuffer = f.buffer,
                                  ![e].stdoutText = @ \o text,
                                  ![e].chunks = @ + 1]
        /\ sent' = sent \o LineEvents(e, "stdout", "data", f.lines)
  /\ UNCHANGED <<platform, mainWindow, customExePath, customWorkingDir, ui>>

StdoutData(e, text) ==
  /\ Running(e)
  /\ ChunksOf(execs) < MaxChunks
  /\ LET f == FeedBuffer(execs[e].stdoutBuffer, text)
     IN /\ execs' = [execs EXCEPT ![e].stdoutBuffer = f.buffer,
                                  ![e].stdoutText = @ \o text,
                                  ![e].chunks = @ + 1]
        /\ sent' = sent \o LineEvents(e, "stdout", "data", f.lines)
  /\ UNCHANGED <<platform, mainWindow, customExePath, customWorkingDir, ui>>

\* childProcess.stderr.on('data')
StderrData(e, text) ==
  /\ Running(e)
  /\ ChunksOf(execs) < MaxChunks
  /\ LET f == FeedBuffer(execs[e].stderrBuffer, text)
     IN /\ execs' = [execs EXCEPT ![e].stderrBuffer = f.buffer,
                                  ![e].stderrText = @ \o text,
                                  ![e].chunks = @ + 1]
        /\ sent' = sent \o LineEvents(e, "stderr", "data", f.lines)
  /\ UNCHANGED <<platform, mainWindow, customExePath, customWorkingDir, ui>>

\* childProcess.on('error')
ErrorResultWithoutError(x, message) ==
  [success |-> FALSE,
   output  |-> x.stdoutBuffer \o x.stderrBuffer,
   error   |-> <<"undefined">>]

ErrorResult(x, message) ==
  [success |-> FALSE,
   output  |-> x.stdoutBuffer \o x.stderrBuffer,
   error   |-> <<"Failed to execute command: ", message>>]

OnError(e, message) ==
  /\ Running(e)
  /\ ~execs[e].errored
  /\ execs' = [execs EXCEPT ![e].hasError = TRUE,
                            ![e].errored = TRUE,
                            ![e].resolved = TRUE,
                            ![e].resolvedAt = IF execs[e].resolved THEN @
                                              ELSE Len(sent) + 1]
  /\ sent' = Append(sent, CompleteEvent(e, "error", ErrorResult(execs[e], message)))
  /\ UNCHANGED <<platform, mainWindow, customExePath, customWorkingDir, ui>>

FlushLinesStdoutOnly(e, x) ==
  IF x.stdoutBuffer # <<>> THEN LineEvents(e, "stdout", "close", <<x.stdoutBuffer>>) ELSE <<>>

\* childProcess.on('close'): the lines flushed from the two buffers.
FlushLines(e, x) ==
  (IF x.stdoutBuffer # <<>> THEN LineEvents(e, "stdout", "close", <<x.stdoutBuffer>>) ELSE <<>>)
  \o (IF x.stderrBuffer # <<>> THEN LineEvents(e, "stderr", "close", <<x.stderrBuffer>>) ELSE <<>>)

CloseResultNullIsZero(code) ==
  LET success == (code.n = 0)
  IN [success |-> success,
      output  |-> IF success THEN <<"Command completed successfully">>
                  ELSE <<"Command exited with code ", code>>,
      error   |-> IF success THEN <<"undefined">> ELSE <<"Exit code: ", code>>]

CloseResult(code) ==
  LET success == (~code.isNull /\ code.n = 0)
  IN [success |-> success,
      output  |-> IF success THEN <<"Command completed successfully">>
                  ELSE <<"Command exited with code ", code>>,
      error   |-> IF success THEN <<"undefined">> ELSE <<"Exit code: ", code>>]

CloseSendsUnguarded(e, x, code) ==
  FlushLines(e, x) \o <<CompleteEvent(e, "close", CloseResult(code))>>

CloseSends(e, x, code) ==
  FlushLines(e, x)
  \o (IF ~x.hasError THEN <<CompleteEvent(e, "close", CloseResult(code))>> ELSE <<>>)

OnClose(e, code) ==
  /\ Running(e)
  /\ execs' = [execs EXCEPT ![e].closed = TRUE,
                            ![e].exitCode = code,
                            ![e].resolved = TRUE,
                            ![e].resolvedAt =
                               IF execs[e].resolved THEN @
                               ELSE Len(sent) + Len(CloseSends(e, execs[e], code))]
  /\ sent' = sent \o CloseSends(e, execs[e], code)
  /\ UNCHANGED <<platform, mainWindow, customExePath, customWorkingDir, ui>>

\* The streaming pipeline: the handler at main.ts:342 and the callbacks of the runtime.
Next ==
  \/ Len(execs) < MaxExec /\ ExecuteCommand(CmdEchoHello, Null)
  \/ \E e \in 1..Len(execs), t \in Chunks : StdoutData(e, t)
  \/ \E e \in 1..Len(execs), t \in Chunks : StderrData(e, t)
  \/ \E e \in 1..Len(execs) : OnError(e, "ENOENT")
  \/ \E e \in 1..Len(execs), code \in ExitCodes : OnClose(e, code)

Spec == Init /\ [][Next]_vars

\* One execution, all of its callbacks: the specification of line framing.
NextFraming ==
  \/ execs = <<>> /\ ExecuteCommand(CmdEchoHello, Null)
  \/ \E e \in 1..Len(execs), t \in Chunks : StdoutData(e, t)
  \/ \E e \in 1..Len(execs), t \in Chunks : StderrData(e, t)
  \/ \E e \in 1..Len(execs) : OnError(e, "ENOENT")
  \/ \E e \in 1..Len(execs), code \in ExitCodes : OnClose(e, code)

SpecFraming == Init /\ [][NextFraming]_vars

\* Command resolution: the dialogs, both handlers on every command, no output.
NextDispatch ==
  \/ \E c \in BOOLEAN, p \in {<<>>, <<CustomExe>>} : SelectFile(c, p)
  \/ \E c \in BOOLEAN, p \in {<<>>} \cup {<<d>> : d \in Dirs} : SelectFolder(c, p)
  \/ /\ Len(execs) < MaxDispatch
     /\ \E cmd \in Commands, wd \in {Null, Some(<<>>), Some(DirA)} : ExecuteCommand(cmd, wd)
  \/ /\ Len(execs) < MaxDispatch
     /\ \E cmd \in Commands, wd \in {Null, Some(<<>>), Some(DirA)} : ExecuteCommandColonSplit(cmd, wd)
  \/ \E e \in 1..Len(execs) : OnClose(e, ExitCode(0))

SpecDispatch == Init /\ [][NextDispatch]_vars

\* ---------------------------------------------------------------- renderer
\* process.cwd() of the main process.
ProcessCwd == <<"/", "w">>

\* get-cwd handler: customWorkingDir || process.cwd()
GetCwd == OrElse(customWorkingDir, Some(ProcessCwd)).val

\* What the preload's electronAPI.getPlatform returns: the reply of the
\* get-platform handler, process.platform.
electronAPI_getPlatform == platform

\* What the preload's electronAPI.checkGitMasteryInstalled returns: the reply
\* of the check-gitmastery-installed handler, whether `which gitmastery`
\* exits with 0 (darwin) or the executable file exists (elsewhere).
electronAPI_checkGitMasteryInstalled(found) == found

\* The start-up block of the renderer: currentWorkingDirectory = await
\* getCwd(), then the platform and the installed probe.
InitializeCwd(found) ==
  /\ ~ui.initialized
  /\ ui' = [ui EXCEPT !.currentWorkingDirectory = GetCwd,
                      !.currentPlatform = electronAPI_getPlatform,
                      !.isGitMasteryInstalled = electronAPI_checkGitMasteryInstalled(found),
                      !.initialized = TRUE]
  /\ UNCHANGED <<platform, mainWindow, customExePath, customWorkingDir, execs, sent>>

\* What the preload's electronAPI.executeCommand passes to ipcRenderer.invoke:
\* the command only; a second argument given by the caller is not forwarded.
electronAPI_executeCommand(command, workingDirectory) ==
  [command |-> command, workingDirectory |-> Null]

\* History entry of a handled `cd`.
CdEntry(command, newPath) ==
  [command |-> command,
   result  |-> [success |-> TRUE,
                output  |-> <<"Changed directory to: ">> \o newPath,
                error   |-> <<"undefined">>]]

\* Initial history entry of an execution.
PendingEntry(command) ==
  [command |-> command,
   result  |-> [success |-> TRUE, output |-> <<>>, error |-> <<"undefined">>]]

\* The controls of the page.  The custom command input hands handleCommand a
\* throw-away object in place of a button.
CustomCommandInput == "customCommandInput"
DummyButton == "dummyButton"
VerifyBtn == "verifyBtn"
CommandButton == "commandButton"
InstallGitMasteryBtn == "installGitMasteryBtn"
SetExePathBtn == "setExePathBtn"
SetWorkingDirBtn == "setWorkingDirBtn"

\* The two listeners a handler registers, with the entry and the output
\* element (its text as a sequence of lines) they close over.
NewListener(kind, entry, button) ==
  [kind |-> kind, entry |-> entry, button |-> button,
   output |-> TRUE, complete |-> TRUE, lines |-> <<>>]

\* executeCommand(command, button) of the renderer up to its await, renderer
\* side: the button is disabled, the history entry pushed, the two listeners
\* registered.
ExecuteCommandUI(u, command, button) ==
  [u EXCEPT !.disabled  = @ \cup {button},
            !.history   = Append(@, PendingEntry(command)),
            !.listeners = Append(@, NewListener("execute", Len(u.history) + 1, button))]

\* executeCommand(command, button) of the renderer up to its await: the
\* renderer side and the invocation of the main handler.
RendererExecuteCommand(command, button) ==
  LET call == electronAPI_executeCommand(command, Some(ui.currentWorkingDirectory))
  IN /\ ui' = ExecuteCommandUI(ui, command, button)
     /\ execs' = Append(execs, StartExecution(call.command, call.workingDirectory))
     /\ UNCHANGED <<platform, mainWindow, customExePath, customWorkingDir, sent>>

\* The `cd` branch of handleCommand, renderer side.
ChangeDirectoryUI(u, command, cdPath) ==
  LET newPath == resolvePath(cdPath, u.currentWorkingDirectory)
  IN [u EXCEPT !.currentWorkingDirectory = newPath,
               !.history = Append(@, CdEntry(command, newPath)),
               !.lastChange = "typed"]

\* handleCommand(command, button): a `cd` is handled in the renderer, any
\* other command is executed.
HandleCommand(command, button) ==
  LET cdPath == parseCdCommand(command)
  IN IF cdPath.some
     THEN /\ ui' = ChangeDirectoryUI(ui, command, cdPath.val)
          /\ UNCHANGED <<platform, mainWindow, customExePath, customWorkingDir, execs, sent>>
     ELSE RendererExecuteCommand(command, button)

\* Enter in the custom command input: the input is disabled while
\* handleCommand is awaited and enabled again in the finally block, at once
\* for a `cd`, else when the invocation settles.
CustomCommandEnter(value) ==
  LET command == Trim(value)
      cdPath  == parseCdCommand(command)
      call    == electronAPI_executeCommand(command, Some(ui.currentWorkingDirectory))
  IN /\ CustomCommandInput \notin ui.disabled
     /\ command # <<>>
     /\ IF cdPath.some
        THEN /\ ui' = ChangeDirectoryUI(ui, command, cdPath.val)
             /\ execs' = execs
        ELSE /\ ui' = [ExecuteCommandUI(ui, command, DummyButton) EXCEPT
                         !.disabled = @ \cup {CustomCommandInput},
                         !.inputPending = Len(execs) + 1]
             /\ execs' = Append(execs, StartExecution(call.command, call.workingDirectory))
     /\ UNCHANGED <<platform, mainWindow, customExePath, customWorkingDir, sent>>

\* The promise of the invocation awaited by the keydown handler of the custom
\* command input is resolved: its finally block enables the input.
InvokeSettled ==
  /\ ui.inputPending # 0
  /\ execs[ui.inputPending].resolved
  /\ ui.delivered >= execs[ui.inputPending].resolvedAt
  /\ ui' = [ui EXCEPT !.disabled = @ \ {CustomCommandInput}, !.inputPending = 0]
  /\ UNCHANGED <<platform, mainWindow, customExePath, customWorkingDir, execs, sent>>

\* Click on a command button other than setup, and on the verify button.
CommandButtonClick(command) ==
  /\ CommandButton \notin ui.disabled
  /\ HandleCommand(command, CommandButton)

VerifyClick ==
  /\ VerifyBtn \notin ui.disabled
  /\ HandleCommand(<<"g", "i", "t", "m", "a", "s", "t", "e", "r", "y", " ", "v", "e", "r", "i", "f", "y">>,
                   VerifyBtn)

\* The tracked directory after n output listeners in turn have applied the
\* hint cdPath to it.
RECURSIVE ApplyHint(_, _, _)
ApplyHint(cdPath, cwd, n) ==
  IF n = 0 THEN cwd ELSE ApplyHint(cdPath, resolvePath(cdPath, cwd), n - 1)

\* Number of registered command-output-line listeners of executeCommand.
OutputListeners(ls) ==
  Len(SelectSeq(ls, LAMBDA l : l.output /\ l.kind = "execute"))

\* The text appended to a line that carried a directory hint.
AutoChangedMark == " (auto-changed directory)"

\* The line an output listener appends to its output element.
DisplayLine(l, line) ==
  IF l.kind = "execute" /\ parseOutputForCd(line).some
  THEN line \o <<AutoChangedMark>>
  ELSE line

OnCommandOutputLastListenerOnly(line) ==
  LET cdPath == parseOutputForCd(line)
      n      == IF OutputListeners(ui.listeners) > 0 THEN 1 ELSE 0
      last   == {i \in DOMAIN ui.listeners :
                   /\ ui.listeners[i].output
                   /\ \A j \in DOMAIN ui.listeners : ui.listeners[j].output => j <= i}
  IN ui' = [ui EXCEPT
              !.delivered = @ + 1,
              !.currentWorkingDirectory =
                 IF cdPath.some THEN ApplyHint(cdPath.val, @, n) ELSE @,
              !.lastChange = IF cdPath.some /\ n > 0 THEN "hint" ELSE @,
              !.listeners = [i \in DOMAIN @ |->
                               IF i \in last
                               THEN [@[i] EXCEPT !.lines = Append(@, DisplayLine(ui.listeners[i], line))]
                               ELSE @[i]]]

\* The renderer receives the next 'command-output-line' event: every
\* registered output listener runs on the line.
OnCommandOutput(line) ==
  LET cdPath == parseOutputForCd(line)
      n      == OutputListeners(ui.listeners)
  IN ui' = [ui EXCEPT
              !.delivered = @ + 1,
              !.currentWorkingDirectory =
                 IF cdPath.some THEN ApplyHint(cdPath.val, @, n) ELSE @,
              !.lastChange = IF cdPath.some /\ n > 0 THEN "hint" ELSE @,
              !.listeners = [i \in DOMAIN @ |->
                               IF @[i].output
                               THEN [@[i] EXCEPT !.lines = Append(@, DisplayLine(ui.listeners[i], line))]
                               ELSE @[i]]]

\* a || b on texts, where undefined and '' are falsy.
TextOr(a, b) == IF a # <<>> /\ a # <<"undefined">> THEN a ELSE b

\* The error messages that contain 'Permission denied', 'command not found'
\* or 'not found'.
NotFoundMessages == {"Permission denied", "command not found", "not found"}

\* errorText.includes(...) for one of these: an error text is a prefix
\* followed by the message of the process error, or names an exit code.
MentionsNotFound(errorText) ==
  /\ Len(errorText) = 2
  /\ errorText[1] \in {"Failed to execute command: ", "Failed to install gitmastery: "}
  /\ errorText[2] \in NotFoundMessages

\* The error text with the advice to install appended when the platform is
\* darwin, gitmastery is not installed and the text mentions a missing command.
WithInstallAdvice(u, errorText) ==
  IF /\ u.currentPlatform = "darwin"
     /\ ~u.isGitMasteryInstalled
     /\ MentionsNotFound(errorText)
  THEN errorText \o <<"GitMastery is not installed. Click the Install GitMastery button">>
  ELSE errorText

\* The lines of the output element after the complete listener l has run.
CompleteLines(u, l, result) ==
  LET advise(t) == IF l.kind = "execute" THEN WithInstallAdvice(u, t) ELSE t
      done      == IF l.kind = "execute" THEN <<"Command completed successfully">>
                   ELSE <<"GitMastery installed successfully">>
      failed    == IF l.kind = "execute" THEN <<"Command failed">>
                   ELSE <<"Installation failed">>
  IN IF l.lines = <<>>
     THEN IF result.success
          THEN <<TextOr(result.output, done)>>
          ELSE <<advise(TextOr(result.error, TextOr(result.output, failed)))>>
     ELSE IF ~result.success /\ TextOr(result.error, <<>>) # <<>>
          THEN IF JoinWith(l.lines, LF) # <<>>
               THEN l.lines \o << <<>>, advise(result.error) >>
               ELSE <<advise(result.error)>>
          ELSE l.lines

\* The renderer receives the next 'command-complete' event: every registered
\* complete listener stores the result in its entry, completes its output
\* element, enables its button and removes its two listeners; the listener
\* of the installer also records a successful installation.
OnCommandComplete(result) ==
  LET ran == {i \in DOMAIN ui.listeners : ui.listeners[i].complete}
  IN ui' = [ui EXCEPT
              !.delivered = @ + 1,
              !.history = [k \in DOMAIN @ |->
                             IF \E i \in ran : ui.listeners[i].entry = k
                             THEN [@[k] EXCEPT !.result = result]
                             ELSE @[k]],
              !.disabled = @ \ {ui.listeners[i].button : i \in ran},
              !.isGitMasteryInstalled =
                 @ \/ (result.success /\ \E i \in ran : ui.listeners[i].kind = "install"),
              !.listeners = [i \in DOMAIN @ |->
                               IF i \in ran
                               THEN [@[i] EXCEPT !.output = FALSE, !.complete = FALSE,
                                                 !.lines = CompleteLines(ui, ui.listeners[i], result)]
                               ELSE @[i]]]

\* Delivery of the next event sent by the main process to the renderer.
DeliverEvent ==
  /\ ui.delivered < Len(sent)
  /\ LET ev == sent[ui.delivered + 1]
     IN IF ev.channel = "command-output-line"
        THEN OnCommandOutput(ev.line)
        ELSE OnCommandComplete(ev.result)
  /\ UNCHANGED <<platform, mainWindow, customExePath, customWorkingDir, execs, sent>>

\* ------------------------------------------------------------- installer
InstallCommand == <<"brew tap git-mastery/gitmastery && brew install gitmastery">>

\* install-gitmastery handler on darwin: the spawn and the closure state.
StartInstall ==
  NewExec("install",
          [command |-> InstallCommand, baseCommand |-> InstallCommand,
           userInput |-> Null, commandWithPath |-> InstallCommand,
           executable |-> InstallCommand, args |-> <<>>,
           workingDirectory |-> Null, cwd |-> Null, env |-> ProcessEnv,
           stdinWrites |-> <<>>, stdinEnded |-> FALSE])

\* install-gitmastery handler (synchronous part), main-process side: off
\* darwin the failure result is sent at once, on darwin brew is spawned.
InstallGitMastery ==
  /\ IF platform # "darwin"
     THEN /\ sent' = Append(sent,
                 CompleteEvent(0, "start",
                   [success |-> FALSE, output |-> <<>>,
                    error |-> <<"Installation via Homebrew is only available on macOS">>]))
          /\ execs' = execs
     ELSE /\ execs' = Append(execs, StartInstall)
          /\ sent' = sent
  /\ UNCHANGED <<platform, mainWindow, customExePath, customWorkingDir>>

\* installProcess.on('error')
InstallError(e, message) ==
  /\ Running(e)
  /\ execs[e].handler = "install"
  /\ ~execs[e].errored
  /\ execs' = [execs EXCEPT ![e].hasError = TRUE,
                            ![e].errored = TRUE,
                            ![e].resolved = TRUE,
                            ![e].resolvedAt = IF execs[e].resolved THEN @
                                              ELSE Len(sent) + 1]
  /\ sent' = Append(sent,
       CompleteEvent(e, "error",
         [success |-> FALSE,
          output  |-> execs[e].stdoutBuffer \o execs[e].stderrBuffer,
          error   |-> <<"Failed to install gitmastery: ", message>>]))
  /\ UNCHANGED <<platform, mainWindow, customExePath, customWorkingDir, ui>>

InstallCloseResult(code) ==
  LET success == (~code.isNull /\ code.n = 0)
  IN [success |-> success,
      output  |-> IF success THEN <<"GitMastery installed successfully via Homebrew">>
                  ELSE <<"Installation failed with code ", code>>,
      error   |-> IF success THEN <<"undefined">> ELSE <<"Exit code: ", code>>]

\* installProcess.on('close')
InstallClose(e, code) ==
  /\ Running(e)
  /\ execs[e].handler = "install"
  /\ LET sends == FlushLines(e, execs[e])
                    \o (IF ~execs[e].hasError
                        THEN <<CompleteEvent(e, "close", InstallCloseResult(code))>>
                        ELSE <<>>)
     IN /\ execs' = [execs EXCEPT ![e].closed = TRUE,
                                  ![e].exitCode = code,
                                  ![e].resolved = TRUE,
                                  ![e].resolvedAt = IF execs[e].resolved THEN @
                                                    ELSE Len(sent) + Len(sends)]
        /\ sent' = sent \o sends
  /\ UNCHANGED <<platform, mainWindow, customExePath, customWorkingDir, ui>>

\* What the preload's electronAPI.installGitMastery invokes.
electronAPI_installGitMastery == "install-gitmastery"

InstallEntry ==
  [command |-> <<"Install GitMastery via Homebrew">>,
   result  |-> [success |-> TRUE, output |-> <<>>, error |-> <<"undefined">>]]

InstallClickKeepsEnabled ==
  /\ ui.initialized /\ ui.currentPlatform = "darwin"
  /\ InstallGitMasteryBtn \notin ui.disabled
  /\ ui' = [ui EXCEPT
              !.history   = Append(@, InstallEntry),
              !.listeners = Append(@, NewListener("install", Len(ui.history) + 1,
                                                  InstallGitMasteryBtn))]
  /\ electronAPI_installGitMastery = "install-gitmastery"
  /\ InstallGitMastery

\* Click on the install button (shown on darwin once the start-up block has
\* run) up to its await: the button is disabled, the entry pushed, the two
\* listeners registered and the main handler invoked.
InstallClick ==
  /\ ui.initialized /\ ui.currentPlatform = "darwin"
  /\ InstallGitMasteryBtn \notin ui.disabled
  /\ ui' = [ui EXCEPT
              !.disabled  = @ \cup {InstallGitMasteryBtn},
              !.history   = Append(@, InstallEntry),
              !.listeners = Append(@, NewListener("install", Len(ui.history) + 1,
                                                  InstallGitMasteryBtn))]
  /\ electronAPI_installGitMastery = "install-gitmastery"
  /\ InstallGitMastery

\* ----------------------------------------------------- the page's controls
ControlChunks == { <<"x", LF>> }

\* The user works the controls while processes run: a command button, the
\* verify button, the custom command input and the install button.
NextControls ==
  \/ \E found \in BOOLEAN : InitializeCwd(found)
  \/ /\ Len(ui.history) < MaxUICommands
     /\ \/ CommandButtonClick(CmdGitRemote)
        \/ VerifyClick
        \/ CustomCommandEnter(CmdEchoHello)
        \/ InstallClick
  \/ InvokeSettled
  \/ \E e \in 1..Len(execs), t \in ControlChunks : StdoutData(e, t)
  \/ \E e \in 1..Len(execs) : execs[e].handler # "install" /\ OnClose(e, ExitCode(0))
  \/ \E e \in 1..Len(execs), code \in {ExitCode(0), ExitCode(1)} : InstallClose(e, code)
  \/ DeliverEvent

SpecControls == Init /\ [][NextControls]_vars

\* A command button, the verify button and the install button worked while
\* processes run.
NextListeners ==
  \/ \E found \in BOOLEAN : InitializeCwd(found)
  \/ /\ Len(ui.history) < MaxUICommands
     /\ \/ CommandButtonClick(CmdGitRemote)
        \/ VerifyClick
        \/ InstallClick
  \/ \E e \in 1..Len(execs), t \in ControlChunks : StdoutData(e, t)
  \/ \E e \in 1..Len(execs) : execs[e].handler # "install" /\ OnClose(e, ExitCode(0))
  \/ \E e \in 1..Len(execs) : InstallClose(e, ExitCode(0))
  \/ DeliverEvent

SpecListeners == Init /\ [][NextListeners]_vars

\* The install button and the verify button worked while brew and a command
\* run.
NextInstall ==
  \/ \E found \in BOOLEAN : InitializeCwd(found)
  \/ /\ Len(ui.history) < MaxClicks
     /\ \/ VerifyClick
        \/ InstallClick
  \/ \E e \in 1..Len(execs) : execs[e].handler # "install" /\ OnClose(e, ExitCode(0))
  \/ \E e \in 1..Len(execs), code \in {ExitCode(0), ExitCode(1)} : InstallClose(e, code)
  \/ \E e \in 1..Len(execs) : InstallError(e, "ENOENT")
  \/ DeliverEvent

SpecInstall == Init /\ [][NextInstall]_vars

\* ------------------------------------------------- file and folder dialogs
\* History entry of a completed selection.
SelectionEntry(command, message, path) ==
  [command |-> <<command>>,
   result  |-> [success |-> TRUE, output |-> <<message>> \o path,
                error |-> <<"undefined">>]]

\* Click on "Set Executable Path" (hidden on darwin by the start-up block):
\* the select-file invocation and, for a path, the history entry.
SetExePathClick(canceled, filePaths) ==
  LET path == DialogReturn(canceled, filePaths)
  IN /\ mainWindow
     /\ ~(ui.initialized /\ ui.currentPlatform = "darwin")
     /\ SetExePathBtn \notin ui.disabled
     /\ customExePath' = IF path.some THEN path ELSE customExePath
     /\ ui' = IF Truthy(path)
              THEN [ui EXCEPT !.history =
                      Append(@, SelectionEntry("Set Executable Path",
                                               "Executable path set to: ", path.val))]
              ELSE ui
     /\ UNCHANGED <<platform, mainWindow, customWorkingDir, execs, sent>>

\* Click on "Set Working Directory": the select-folder invocation and, for a
\* path, the tracked directory and the history entry.
SetWorkingDirClick(canceled, filePaths) ==
  LET path == DialogReturn(canceled, filePaths)
  IN /\ mainWindow
     /\ SetWorkingDirBtn \notin ui.disabled
     /\ customWorkingDir' = IF path.some THEN path ELSE customWorkingDir
     /\ ui' = IF Truthy(path)
              THEN [ui EXCEPT !.currentWorkingDirectory = path.val,
                              !.lastChange = "selected",
                              !.history =
                      Append(@, SelectionEntry("Set Working Directory",
                                               "Working directory set to: ", path.val))]
              ELSE ui
     /\ UNCHANGED <<platform, mainWindow, customExePath, execs, sent>>

FileChoices == {<<>>, <<CustomExe>>, <<BundledExe>>}
FolderChoices == {<<>>, <<DirA>>, <<DirB>>}

\* The user picks files and folders, closes the window and, on darwin, opens
\* it again.
NextDialog ==
  \/ mainWindow /\ \E found \in BOOLEAN : InitializeCwd(found)
  \/ /\ Len(ui.history) < MaxUICommands
     /\ \E c \in BOOLEAN, p \in FileChoices : SetExePathClick(c, p)
  \/ /\ Len(ui.history) < MaxUICommands
     /\ \E c \in BOOLEAN, p \in FolderChoices : SetWorkingDirClick(c, p)
  \/ WindowClosed
  \/ Activate

SpecDialog == Init /\ [][NextDialog]_vars

\* ------------------------------------------------------------ observations
Execs == 1..Len(execs)

IsComplete(ev) == ev.channel = "command-complete"

IsLine(ev) == ev.channel = "command-output-line"

\* Positions in sent of the command-complete events of execution e.
CompletesOf(e) == {i \in DOMAIN sent : sent[i].id = e /\ IsComplete(sent[i])}

\* The process of execution e has ended: 'error' or 'close' was delivered.
Ended(e) == execs[e].errored \/ execs[e].closed

\* ------------------------------------------------------------------ claims

\* C1: every execute-command invocation sends exactly one command-complete
\* event: never two, and never zero once 'error' or 'close' was delivered,
\* on each of the paths error only, close with code 0, close with a non-zero
\* code, error then close.
C1_ExactlyOneResult ==
  \A e \in Execs :
    /\ Cardinality(CompletesOf(e)) <= 1
    /\ Ended(e) => Cardinality(CompletesOf(e)) = 1

C1_Witness ==
  \E e \in Execs :
    execs[e].errored /\ execs[e].closed /\ Cardinality(CompletesOf(e)) = 1

\* C2 (as claimed): within one execution no command-output-line event is sent
\* after its command-complete event.
C2_ResultIsLastEvent ==
  \A i, j \in DOMAIN sent :
    (i < j /\ IsComplete(sent[i]) /\ sent[j].id = sent[i].id) => ~IsLine(sent[j])

\* C3: a Result sent by 'close' (no process-start error) has success = TRUE
\* exactly when the exit code is 0; for a non-zero or null code success is
\* FALSE and the error string carries the code.
C3_ExitCodeMapping ==
  \A i \in DOMAIN sent :
    (IsComplete(sent[i]) /\ sent[i].at = "close") =>
      LET code == execs[sent[i].id].exitCode
          r    == sent[i].result
      IN /\ r.success <=> (~code.isNull /\ code.n = 0)
         /\ ~r.success => r.error = <<"Exit code: ", code>>

C3_Witness ==
  \E i \in DOMAIN sent :
    /\ IsComplete(sent[i]) /\ sent[i].at = "close"
    /\ execs[sent[i].id].exitCode = NullExit
    /\ ~sent[i].result.success

\* --------------------------------------------------- line framing, observed
Streams == {"stdout", "stderr"}

\* The text of the line events of one stream of execution e, in sending order.
LinesIn(evs, e, stream) ==
  LET sel == SelectSeq(evs, LAMBDA ev : IsLine(ev) /\ ev.id = e /\ ev.stream = stream)
  IN [i \in 1..Len(sel) |-> sel[i].line]

LinesOf(e, stream) == LinesIn(sent, e, stream)

\* Everything received so far on a stream, and the stream's line buffer.
TextOf(e, stream) == IF stream = "stdout" THEN execs[e].stdoutText ELSE execs[e].stderrText

BufferOf(e, stream) == IF stream = "stdout" THEN execs[e].stdoutBuffer ELSE execs[e].stderrBuffer

\* The text with every CR LF replaced by LF.
RECURSIVE Normalize(_)
Normalize(s) ==
  IF s = <<>> THEN <<>>
  ELSE IF Head(s) = CR /\ Len(s) >= 2 /\ s[2] = LF THEN <<LF>> \o Normalize(Tail(Tail(s)))
  ELSE <<Head(s)>> \o Normalize(Tail(s))

\* The part of the text after its last LF (the whole text if it has none).
TrailingPartial(s) ==
  LET lfs  == {i \in 1..Len(s) : s[i] = LF}
      last == IF lfs = {} THEN 0 ELSE CHOOSE i \in lfs : \A k \in lfs : k <= i
  IN SubSeq(s, last + 1, Len(s))

\* Positions in sent of the lines that 'close' flushed from a stream's buffer.
FlushesOf(e, stream) ==
  {i \in DOMAIN sent : /\ IsLine(sent[i]) /\ sent[i].id = e
                       /\ sent[i].stream = stream /\ sent[i].at = "close"}

\* C4 (as claimed): before the final flush, the emitted lines of a stream
\* rejoined with LF, together with the unflushed buffer, equal the stream text
\* up to normalising CR LF to LF, empty lines included.
C4_NoOutputLost ==
  \A e \in Execs : \A st \in Streams :
    ~execs[e].closed =>
      JoinWith(LinesOf(e, st) \o <<BufferOf(e, st)>>, LF) = Normalize(TextOf(e, st))

\* C4 (amended): no non-empty line is lost.  The emitted lines of a stream, in
\* order, followed by the still-unflushed buffer when it is non-empty, are
\* exactly the non-empty lines of the stream text after normalising CR LF to
\* LF, a final line without terminator included; empty lines are not emitted.
C4_NoNonEmptyLineLost ==
  \A e \in Execs : \A st \in Streams :
    LinesOf(e, st)
      \o (IF ~execs[e].closed /\ BufferOf(e, st) # <<>> THEN <<BufferOf(e, st)>> ELSE <<>>)
    = NonEmptyLines(SplitOn(Normalize(TextOf(e, st)), LF))

C4_Witness ==
  \E e \in Execs :
    /\ execs[e].closed
    /\ execs[e].stdoutText = <<"a", LF, LF, "c", LF, "d">>
    /\ LinesOf(e, "stdout") = << <<"a">>, <<"c">>, <<"d">> >>

\* C5: the lines emitted for a stream do not depend on how its text was cut
\* into chunks: they are the lines that feeding the whole text as one chunk
\* emits, and after the flush at close also its remainder.
C5_ChunkIndependence ==
  \A e \in Execs : \A st \in Streams :
    LET whole == FeedBuffer(<<>>, TextOf(e, st))
    IN IF execs[e].closed
       THEN LinesOf(e, st)
              = whole.lines \o (IF whole.buffer # <<>> THEN <<whole.buffer>> ELSE <<>>)
       ELSE LinesOf(e, st) = whole.lines /\ BufferOf(e, st) = whole.buffer

C5_Witness ==
  \E e \in Execs :
    /\ execs[e].closed
    /\ execs[e].chunks = 2
    /\ execs[e].stdoutText = <<"b", CR, LF, LF, "c", LF, "d">>
    /\ LinesOf(e, "stdout") = << <<"b">>, <<"c">>, <<"d">> >>

\* C9 (as claimed): on normal exit the trailing partial line of each stream is
\* flushed exactly once if non-empty, before the Result, and the buffers are
\* empty afterwards; no flush before exit, no second flush.
C9_FlushOnceAndEmpty ==
  \A e \in Execs : \A st \in Streams :
    /\ ~execs[e].closed => FlushesOf(e, st) = {}
    /\ Cardinality(FlushesOf(e, st)) <= 1
    /\ (execs[e].closed /\ ~execs[e].errored) =>
         LET t == TrailingPartial(TextOf(e, st))
         IN /\ t # <<>> => \E i \in FlushesOf(e, st) : sent[i].line = t
            /\ t = <<>> => FlushesOf(e, st) = {}
            /\ \A i \in FlushesOf(e, st) : \A j \in CompletesOf(e) : i < j
            /\ BufferOf(e, st) = <<>>

\* C9 (amended): as claimed, except that 'close' does not clear the buffers:
\* afterwards each buffer still holds the trailing partial line it flushed.
C9_FlushOnce ==
  \A e \in Execs : \A st \in Streams :
    /\ ~execs[e].closed => FlushesOf(e, st) = {}
    /\ Cardinality(FlushesOf(e, st)) <= 1
    /\ (execs[e].closed /\ ~execs[e].errored) =>
         LET t == TrailingPartial(TextOf(e, st))
         IN /\ t # <<>> => \E i \in FlushesOf(e, st) : sent[i].line = t
            /\ t = <<>> => FlushesOf(e, st) = {}
            /\ \A i \in FlushesOf(e, st) : \A j \in CompletesOf(e) : i < j
            /\ BufferOf(e, st) = t

C9_Witness ==
  \E e \in Execs :
    /\ execs[e].closed /\ ~execs[e].errored
    /\ execs[e].stdoutBuffer # <<>> /\ execs[e].stderrBuffer # <<>>
    /\ Cardinality(FlushesOf(e, "stdout")) = 1
    /\ Cardinality(FlushesOf(e, "stderr")) = 1
    /\ Cardinality(CompletesOf(e)) = 1

\* C10: while an execution runs, each stream's buffer is exactly the part of
\* the received text after its last LF; it never contains an LF.
C10_BufferIsUnterminatedSuffix ==
  \A e \in Execs : \A st \in Streams :
    ~execs[e].closed =>
      /\ BufferOf(e, st) = TrailingPartial(TextOf(e, st))
      /\ \A i \in 1..Len(BufferOf(e, st)) : BufferOf(e, st)[i] # LF

C10_Witness ==
  \E e \in Execs :
    /\ ~execs[e].closed
    /\ execs[e].stdoutText = <<"a", LF, LF, "c", LF, "d">>
    /\ execs[e].stdoutBuffer = <<"d">>

\* ------------------------------------------------------- command resolution
\* The command begins with a whitelisted prefix followed immediately by ':'.
Whitelisted(command) ==
  \E p \in interactiveCommands :
    Len(command) > Len(p) /\ SubSeq(command, 1, Len(p) + 1) = p \o <<":">>

\* C6 (as claimed): for a command that is not whitelisted, a colon never
\* splits the command and nothing is written to stdin: no stdin payload is
\* extracted, stdin is neither written nor closed, and the arguments are the
\* words of the command after the program name, colons intact.
C6_WhitelistIsolation ==
  \A e \in Execs :
    ~Whitelisted(execs[e].command) =>
      /\ ~execs[e].userInput.some
      /\ execs[e].stdinWrites = <<>>
      /\ ~execs[e].stdinEnded
      /\ execs[e].args = Tail(SplitOn(execs[e].command, " "))

\* C7 (as claimed): `gitmastery setup:my-dir` spawns the resolved gitmastery
\* executable with the single argument `setup`, writes exactly `my-dir` plus
\* one newline to stdin and closes stdin.
C7_StdinRoundTrip ==
  \A e \in Execs :
    execs[e].command = CmdSetupMyDir =>
      /\ execs[e].executable \in {Gitmastery, BundledExe, CustomExe}
      /\ execs[e].args = << <<"s", "e", "t", "u", "p">> >>
      /\ execs[e].stdinWrites = << MyDir \o <<LF>> >>
      /\ execs[e].stdinEnded

\* C8 (as claimed): a whitelisted command followed by a colon is split at
\* that colon: the program invocation is exactly the whitelisted prefix and
\* the stdin payload is everything after the colon, further colons included.
C8_SplitAtFirstColon ==
  \A e \in Execs : \A p \in interactiveCommands :
    (Len(execs[e].command) > Len(p)
       /\ SubSeq(execs[e].command, 1, Len(p) + 1) = p \o <<":">>) =>
      /\ execs[e].baseCommand = p
      /\ execs[e].userInput
           = Some(SubSeq(execs[e].command, Len(p) + 2, Len(execs[e].command)))

\* ------------------------------------------------------------ line ordering
IsPrefix(s, t) == Len(s) <= Len(t) /\ SubSeq(t, 1, Len(s)) = s

\* C11: the line events of one stream are sent in the order in which the
\* lines appear in that stream's text, whatever the interleaving of the
\* stdout and stderr callbacks: at every moment they are an initial part of
\* the stream's non-empty lines, taken in text order.
C11_StreamOrderPreserved ==
  \A e \in Execs : \A st \in Streams :
    IsPrefix(LinesOf(e, st), NonEmptyLines(SplitOn(Normalize(TextOf(e, st)), LF)))

C11_Witness ==
  \E i, j, k \in DOMAIN sent :
    /\ i < j /\ j < k
    /\ IsLine(sent[i]) /\ IsLine(sent[j]) /\ IsLine(sent[k])
    /\ sent[i].id = sent[k].id /\ sent[j].id = sent[i].id
    /\ sent[i].stream = "stdout" /\ sent[j].stream = "stderr" /\ sent[k].stream = "stdout"
    /\ sent[i].line # sent[k].line

\* ------------------------------------------------------ end-to-end scenario
\* What the process of `echo hello` writes to stdout.
EchoOutput == <<"h", "e", "l", "l", "o", LF>>

\* The next piece of EchoOutput the runtime may deliver to execution e.
EchoPieces(e) ==
  LET n == Len(execs[e].stdoutText)
  IN IF IsPrefix(execs[e].stdoutText, EchoOutput)
     THEN {SubSeq(EchoOutput, n + 1, n + k) : k \in 1..(Len(EchoOutput) - n)}
     ELSE {}

\* `echo hello` under both handlers; stdout delivers EchoOutput cut anywhere.
NextEcho ==
  \/ Len(execs) < MaxExec /\ ExecuteCommand(CmdEchoHello, Null)
  \/ Len(execs) < MaxExec /\ ExecuteCommandColonSplit(CmdEchoHello, Null)
  \/ \E e \in 1..Len(execs) : \E t \in EchoPieces(e) : StdoutData(e, t)
  \/ \E e \in 1..Len(execs) : OnError(e, "ENOENT")
  \/ \E e \in 1..Len(execs), code \in ExitCodes : OnClose(e, code)

SpecEcho == Init /\ [][NextEcho]_vars

\* The events of execution e, in sending order.
RECURSIVE EventsIn(_, _)
EventsIn(evs, e) ==
  IF evs = <<>> THEN <<>>
  ELSE IF Head(evs).id = e THEN <<Head(evs)>> \o EventsIn(Tail(evs), e)
  ELSE EventsIn(Tail(evs), e)

\* C12: a non-whitelisted command whose process wrote `hello` and a newline
\* to stdout and exited with code 0 (no process-start error) produced exactly
\* two events: the line `hello`, then the Result {success: true, output:
\* "Command completed successfully"} with error undefined.
C12_EchoHelloEndToEnd ==
  \A e \in Execs :
    (/\ execs[e].command = CmdEchoHello
     /\ execs[e].closed /\ ~execs[e].errored
     /\ execs[e].exitCode = ExitCode(0)
     /\ execs[e].stdoutText = EchoOutput /\ execs[e].stderrText = <<>>) =>
      LET evs == EventsIn(sent, e)
      IN /\ Len(evs) = 2
         /\ IsLine(evs[1]) /\ evs[1].line = <<"h", "e", "l", "l", "o">>
         /\ IsComplete(evs[2])
         /\ evs[2].result = [success |-> TRUE,
                             output  |-> <<"Command completed successfully">>,
                             error   |-> <<"undefined">>]

C12_Witness ==
  \E e \in Execs :
    /\ execs[e].closed /\ ~execs[e].errored
    /\ execs[e].exitCode = ExitCode(0)
    /\ execs[e].stdoutText = EchoOutput
    /\ execs[e].chunks = 2
    /\ Len(EventsIn(sent, e)) = 2

\* ------------------------------------------------------- working directory
\* The executions the step under consideration has started.
Started == {e \in 1..Len(execs') : e > Len(execs)}

\* C14: every execution is spawned with the explicit workingDirectory
\* argument when one is given (a non-empty string), otherwise with the custom
\* working directory last set through the folder dialog, otherwise with no
\* cwd option at all (the process default); a lower-precedence value is never
\* used when a higher-precedence one is set.
C14_CwdPrecedence ==
  [][\A e \in Started :
       LET x == execs'[e]
       IN /\ Truthy(x.workingDirectory) => x.cwd = Some(x.workingDirectory.val)
          /\ (~Truthy(x.workingDirectory) /\ customWorkingDir.some)
               => x.cwd = Some(customWorkingDir.val)
          /\ (~Truthy(x.workingDirectory) /\ ~customWorkingDir.some)
               => ~x.cwd.some]_vars

\* An execution invoked without a working directory runs in the folder that
\* was selected before it.
C14_Witness ==
  \E e \in Execs : ~Truthy(execs[e].workingDirectory) /\ execs[e].cwd = Some(DirB)

TokenAlphabet == {"a", " ", DQ, TAB}

\* All texts over TokenAlphabet of length at most n.
RECURSIVE Texts(_)
Texts(n) ==
  IF n = 0 THEN {<<>>}
  ELSE LET shorter == Texts(n - 1)
       IN shorter \cup {Append(t, c) : t \in shorter, c \in TokenAlphabet}

\* Commands sent to the handler: any text, alone or after `gitmastery`.
TokenCommands == Texts(MaxCmdLen) \cup {Gitmastery \o t : t \in Texts(MaxCmdLen)}

NextTokenize ==
  \/ \E c \in BOOLEAN, p \in {<<>>, <<CustomExe>>} : SelectFile(c, p)
  \/ execs = <<>> /\ \E cmd \in TokenCommands : ExecuteCommand(cmd, Null)
  \/ execs = <<>> /\ \E cmd \in TokenCommands : ExecuteCommandColonSplit(cmd, Null)

SpecTokenize == Init /\ [][NextTokenize]_vars

\* Number of double quotes among the first n characters of s.
RECURSIVE QuotesBefore(_, _)
QuotesBefore(s, n) ==
  IF n = 0 THEN 0 ELSE QuotesBefore(s, n - 1) + (IF s[n] = DQ THEN 1 ELSE 0)

\* Position i of s lies inside a double-quoted span.
InQuotedSpan(s, i) == QuotesBefore(s, i - 1) % 2 = 1

\* s with every separating character (one of seps outside a quoted span)
\* replaced by the mark "SEP" and every double quote removed.
RECURSIVE MarkedFrom(_, _, _)
MarkedFrom(s, seps, i) ==
  IF i > Len(s) THEN <<>>
  ELSE (IF s[i] = DQ THEN <<>>
        ELSE IF s[i] \in seps /\ ~InQuotedSpan(s, i) THEN <<"SEP">>
        ELSE <<s[i]>>) \o MarkedFrom(s, seps, i + 1)

\* The argument vector the tokenization rule prescribes for s when the
\* characters of seps separate arguments.
ExpectedArgv(s, seps) == NonEmptyLines(SplitOn(MarkedFrom(s, seps, 1), "SEP"))

\* The argument vector of execution e, program name first.
ArgvOf(e) == <<execs[e].executable>> \o execs[e].args

TokenizedAs(e, seps) ==
  LET expected == ExpectedArgv(execs[e].commandWithPath, seps)
  IN /\ expected # <<>> => ArgvOf(e) = expected
     /\ expected = <<>> => execs[e].args = <<>>
     /\ \A k \in 1..Len(execs[e].args) :
          /\ execs[e].args[k] # <<>>
          /\ \A i \in 1..Len(execs[e].args[k]) : execs[e].args[k][i] # DQ

\* C16 (as claimed): the argument vector is the resolved command line split
\* on white space (space or tab) outside double-quoted spans, quotes removed,
\* no empty argument.
C16_SplitOnWhitespace == \A e \in Execs : TokenizedAs(e, {" ", TAB})

\* C16 (amended): the argument vector is the resolved command line split on
\* space characters outside double-quoted spans; every other character,
\* a tab included, stays in its argument; white space inside a quoted span
\* stays inside one argument; every double quote toggles quoting and appears
\* in no argument; no argument is empty; a quoted executable path containing
\* spaces is the single first token.
C16_SplitOnSpace ==
  \A e \in Execs :
    /\ TokenizedAs(e, {" "})
    /\ LET quoted == <<DQ>> \o CustomExe \o <<DQ>>
           line   == execs[e].commandWithPath
       IN (StartsWith(line, quoted)
             /\ (Len(line) > Len(quoted) => line[Len(quoted) + 1] = " "))
            => execs[e].executable = CustomExe

\* `gitmastery a<tab>a` run with the custom executable `C:\my tools\gm.exe`:
\* the quoted path is one token and the tab stays inside the argument.
C16_Witness ==
  \E e \in Execs :
    /\ execs[e].command = Gitmastery \o <<" ", "a", TAB, "a">>
    /\ execs[e].executable = CustomExe
    /\ execs[e].args = << <<"a", TAB, "a">> >>

\* ----------------------------------------------------------- directory hints
\* Output texts of the executions: a plain hint, a line whose first word
\* only ends in `cd`, and a hint behind the INFO marker.
HintCdSub == <<"c", "d", " ", "s", "u", "b", LF>>
LineAbcdFoo == <<"a", "b", "c", "d", " ", "f", "o", "o", LF>>
HintInfoCd == <<"I", "N", "F", "O", " ", " ", "c", "d", " ", "/", "w", "/", "b", LF>>
HintChunks == {HintCdSub, LineAbcdFoo, HintInfoCd}

\* A typed cd command.
TypedCdDocs == <<"c", "d", " ", "d", "o", "c", "s">>

NextHint ==
  \/ \E found \in BOOLEAN : InitializeCwd(found)
  \/ /\ Len(ui.history) < MaxUICommands
     /\ \E cmd \in {CmdEchoHello, TypedCdDocs} : CustomCommandEnter(cmd)
  \/ InvokeSettled
  \/ \E e \in 1..Len(execs), t \in HintChunks : StdoutData(e, t)
  \/ \E e \in 1..Len(execs) : OnClose(e, ExitCode(0))
  \/ DeliverEvent

SpecHint == Init /\ [][NextHint]_vars

\* The directory the process of execution record x is started in.
SpawnDirectory(x) == IF x.cwd.some THEN x.cwd.val ELSE ProcessCwd

\* C13 (as claimed): a replacement of the tracked working directory never
\* changes the working directory of an execution already started, and once a
\* directory hint or a typed cd has replaced the tracked directory (first
\* read from the main process) with D, the next execution is spawned in D.
C13_NextExecutionUsesTrackedDir ==
  [][/\ \A e \in 1..Len(execs) : execs'[e].cwd = execs[e].cwd
     /\ \A e \in Started :
          (ui.initialized /\ ui.lastChange \in {"hint", "typed"})
            => SpawnDirectory(execs'[e]) = ui.currentWorkingDirectory]_vars

\* Index of the first white-space character of s (Len(s) + 1 if none).
RECURSIVE WordEnd(_, _)
WordEnd(s, i) == IF i <= Len(s) /\ ~IsSpace(s[i]) THEN WordEnd(s, i + 1) ELSE i

\* The line has the form  (marker ws)? cd ws path-to-end-of-line, where the
\* marker is one word; leading white space is allowed.
IsHintForm(line) ==
  LET s == TrimLeft(line)
  IN \/ CdGroupAt(s, 1).some
     \/ CdGroupAt(s, SkipSpace(s, WordEnd(s, 1))).some

\* C17 (as claimed): once the renderer has its working directory, an output
\* line that does not have the hint form, such as `abcd foo` where `cd` is
\* only the tail of a longer word, leaves the tracked working directory
\* unchanged.
C17_OnlyHintFormChangesDir ==
  [][(/\ ui.initialized
      /\ ui'.delivered = ui.delivered + 1
      /\ sent[ui.delivered + 1].channel = "command-output-line"
      /\ ~IsHintForm(sent[ui.delivered + 1].line))
       => ui'.currentWorkingDirectory = ui.currentWorkingDirectory]_vars

\* ---------------------------------------------------------- path resolution
\* Paths typed after `cd`: relative ones, then absolute ones.
PathUp == <<".", ".">>
PathSub == <<"s", "u", "b">>
PathUpSibling == <<".", ".", "/", "s", "i", "b", "l", "i", "n", "g">>
PathSubDir == <<"s", "u", "b", BSL, "d", "i", "r">>
PathDots == <<".", "/", "a", "/", "/", "b">>
PathUnixProject == <<"/", "h", "o", "m", "e", "/", "u", "s", "e", "r", "/", "p", "r", "o", "j", "e", "c", "t">>
PathWinProj == <<"C", ":", BSL, "U", "s", "e", "r", "s", BSL, "m", "e", BSL, "p", "r", "o", "j">>
PathUnc == <<BSL, BSL, "s", "r", "v", BSL, "s", "h", "a", "r", "e">>
PathTrailing == <<"/", "w", "/", "a", "/">>
PathDrive == <<"C", ":", BSL, "d">>
PathUpUpUp == <<".", ".", "/", ".", ".", "/", ".", ".">>
RelativeTargets == {PathUp, PathSub, PathUpSibling, PathSubDir, PathDots, PathUpUpUp}
AbsoluteTargets == {PathUnixProject, PathWinProj, PathUnc, PathTrailing, PathDrive}
PathTargets == RelativeTargets \cup AbsoluteTargets

\* The command `cd <path>` as typed.
TypedCd(path) == <<"c", "d", " ">> \o path

\* The same in upper case, more white space and the path in double quotes.
TypedCdQuoted(path) == <<"C", "D", " ", " ", DQ>> \o path \o <<DQ>>

PathCommands ==
  {TypedCd(p) : p \in PathTargets} \cup {TypedCdQuoted(PathSub), CmdEchoHello}

NextPath ==
  \/ \E found \in BOOLEAN : InitializeCwd(found)
  \/ /\ Len(ui.history) < MaxUICommands
     /\ \E cmd \in PathCommands : CustomCommandEnter(cmd)

SpecPath == Init /\ [][NextPath]_vars

\* The step adds one history entry for `command`.
Handles(command) ==
  /\ Len(ui'.history) = Len(ui.history) + 1
  /\ ui'.history[Len(ui'.history)].command = command

\* base without one final separator.
StripTrailingSeparator(base) ==
  IF base # <<>> /\ base[Len(base)] \in {"/", BSL}
  THEN SubSeq(base, 1, Len(base) - 1)
  ELSE base

\* The directory the resolution rule prescribes for a relative target:
\* the directories of base, then each segment of target applied in turn
\* (`..` removes the last directory, `.` and empty segments do nothing),
\* joined with `/` if base contains one, else with `\`.
ExpectedRelative(target, base) ==
  JoinWith(ApplyParts(SplitPath(StripTrailingSeparator(base)), SplitPath(target)),
           IF \E i \in 1..Len(base) : base[i] = "/" THEN "/" ELSE BSL)

\* C18 (as claimed): a typed `cd` with a relative target moves the tracked
\* directory to the path the rule prescribes, also when the tracked
\* directory ends with a separator; `/home/user/project` with `../sibling`
\* gives `/home/user/sibling` and `C:\Users\me\proj` with `sub\dir` gives
\* `C:\Users\me\proj\sub\dir`.
C18_RelativeResolution ==
  [][\A t \in RelativeTargets :
       Handles(TypedCd(t)) =>
         /\ ui'.currentWorkingDirectory = ExpectedRelative(t, ui.currentWorkingDirectory)
         /\ (ui.currentWorkingDirectory = PathUnixProject /\ t = PathUpSibling)
              => ui'.currentWorkingDirectory = <<"/", "h", "o", "m", "e", "/", "u", "s", "e", "r", "/", "s", "i", "b", "l", "i", "n", "g">>
         /\ (ui.currentWorkingDirectory = PathWinProj /\ t = PathSubDir)
              => ui'.currentWorkingDirectory = <<"C", ":", BSL, "U", "s", "e", "r", "s", BSL, "m", "e", BSL, "p", "r", "o", "j", BSL, "s", "u", "b", BSL, "d", "i", "r">>]_vars

\* C19: a typed `cd` with an absolute target (drive letter, colon and
\* backslash; two backslashes; or a leading slash) moves the tracked
\* directory to exactly that target whatever the tracked directory was, so
\* typing it a second time changes nothing.
C19_AbsoluteVerbatim ==
  [][\A t \in AbsoluteTargets :
       Handles(TypedCd(t)) => ui'.currentWorkingDirectory = t]_vars

\* `cd C:\d` typed twice in a row: the second resolution starts from C:\d
\* and ends in C:\d.
C19_Witness ==
  /\ Len(ui.history) = 2
  /\ ui.history[1].command = TypedCd(PathDrive)
  /\ ui.history[2].command = TypedCd(PathDrive)
  /\ ui.currentWorkingDirectory = PathDrive
  /\ ui.history[2].result.output = <<"Changed directory to: ">> \o PathDrive

\* The typed commands that are a literal `cd <path>`, with their path.
LiteralCds ==
  {[command |-> TypedCd(p), path |-> p] : p \in PathTargets}
    \cup {[command |-> TypedCdQuoted(PathSub), path |-> PathSub]}

\* C20: a literal `cd <path>` is handled in the renderer alone: the tracked
\* directory becomes the resolved path, one successful history entry that
\* names the new directory is added, no execute-command invocation reaches
\* the main process, no process is spawned and no listener is registered.
C20_CdHandledClientSide ==
  [][\A c \in LiteralCds :
       Handles(c.command) =>
         LET newPath == resolvePath(c.path, ui.currentWorkingDirectory)
         IN /\ ui'.currentWorkingDirectory = newPath
            /\ ui'.history = Append(ui.history,
                 [command |-> c.command,
                  result  |-> [success |-> TRUE,
                               output  |-> <<"Changed directory to: ">> \o newPath,
                               error   |-> <<"undefined">>]])
            /\ execs' = execs
            /\ sent' = sent
            /\ ui'.listeners = ui.listeners]_vars

\* `CD  "sub"` typed in /w: the directory is /w/sub, the entry is there and
\* nothing was executed.
C20_Witness ==
  /\ ui.initialized
  /\ Len(ui.history) = 1
  /\ ui.history[1].command = TypedCdQuoted(PathSub)
  /\ ui.history[1].result.success
  /\ ui.currentWorkingDirectory = ProcessCwd \o <<"/">> \o PathSub
  /\ execs = <<>>

\* ------------------------------------------------------------ stdin payload
\* C25 (as claimed): whenever a stdin payload is extracted from the command,
\* the empty payload included, the payload plus one newline is written to
\* stdin and stdin is closed right after the spawn; stdin is never left open
\* once a payload was extracted.
C25_PayloadAlwaysWritten ==
  \A e \in Execs :
    execs[e].userInput.some =>
      /\ execs[e].stdinWrites = << execs[e].userInput.val \o <<LF>> >>
      /\ execs[e].stdinEnded

\* ------------------------------------------------------ process-start error
\* The command-complete events sent by the 'error' handler of execution e.
ErrorCompletesOf(e) ==
  {i \in 1..Len(sent) : sent[i].id = e /\ IsComplete(sent[i]) /\ sent[i].at = "error"}

\* C23: once the 'error' event of a process was handled, a command-complete
\* event with success = false and the error text "Failed to execute command: "
\* followed by the error's message has been sent for it, and the promise of
\* the invocation is resolved (the promise has no reject path).
C23_StartErrorReported ==
  \A e \in Execs :
    execs[e].errored =>
      /\ execs[e].resolved
      /\ \E i \in ErrorCompletesOf(e) :
           /\ ~sent[i].result.success
           /\ sent[i].result.error = <<"Failed to execute command: ", "ENOENT">>

C23_Witness ==
  \E e \in Execs :
    /\ execs[e].errored
    /\ ~execs[e].closed
    /\ execs[e].resolved
    /\ ErrorCompletesOf(e) # {}

\* ------------------------------------------------- directory change is total
\* The targets made of `..` segments only, with their number of segments.
UpTargets == {[path |-> PathUp, ups |-> 1], [path |-> PathUpUpUp, ups |-> 3]}

\* parts without its last k elements, or empty when it has fewer.
DropLast(parts, k) ==
  SubSeq(parts, 1, IF Len(parts) > k THEN Len(parts) - k ELSE 0)

\* C26: a typed directory change never fails. Whatever the tracked directory
\* and the target, the step adds a successful history entry without an error
\* and the tracked directory becomes the path that entry reports; an absolute
\* target is taken as it is, without any check that it exists; a target of k
\* `..` segments removes the last k segments of the tracked directory, or all
\* of them when there are fewer than k.
C26_DirectoryChangeNeverFails ==
  [][\A c \in LiteralCds :
       Handles(c.command) =>
         LET entry == ui'.history[Len(ui'.history)]
             base  == ui.currentWorkingDirectory
         IN /\ entry.result.success
            /\ entry.result.error = <<"undefined">>
            /\ entry.result.output = <<"Changed directory to: ">> \o ui'.currentWorkingDirectory
            /\ c.path \in AbsoluteTargets => ui'.currentWorkingDirectory = c.path
            /\ \A u \in UpTargets :
                 c.path = u.path =>
                   ui'.currentWorkingDirectory
                     = JoinWith(DropLast(SplitPath(base), u.ups),
                                IF \E i \in 1..Len(base) : base[i] = "/" THEN "/" ELSE BSL)]_vars

\* `cd C:\d` then `cd ../../..`: three `..` against the two segments of
\* C:\d leave the empty path, reported by a successful entry.
C26_Witness ==
  /\ Len(ui.history) = 2
  /\ ui.history[1].command = TypedCd(PathDrive)
  /\ ui.history[2].command = TypedCd(PathUpUpUp)
  /\ ui.history[2].result.success
  /\ ui.currentWorkingDirectory = <<>>

\* ------------------------------------------------------ spawn environment
\* The install directories the search path is to start with, in order.
KnownInstallDirs == <<"/opt/homebrew/bin", "/usr/local/bin">>

\* s without the later occurrences of its elements.
RECURSIVE DedupAcc(_, _)
DedupAcc(s, acc) ==
  IF s = <<>> THEN acc
  ELSE DedupAcc(Tail(s),
                IF \E i \in 1..Len(acc) : acc[i] = Head(s) THEN acc
                ELSE Append(acc, Head(s)))

Dedup(s) == DedupAcc(s, <<>>)

\* C24 (as claimed): on darwin the search path handed to the spawned process
\* is the known install directories followed by the ambient search path,
\* every directory kept at its first occurrence only; on any other platform
\* it is the ambient search path itself.
C24_SearchPathAugmented ==
  \A e \in Execs :
    execs[e].env.PATH = IF platform = "darwin"
                        THEN Dedup(KnownInstallDirs \o ProcessEnv.PATH)
                        ELSE ProcessEnv.PATH

\* ------------------------------------------------- overlapping executions
OverlapChunks == { <<"x">>, <<"y", LF>> }

\* Several invocations of the handler at main.ts:342 whose processes run at
\* the same time.
NextOverlap ==
  \/ Len(execs) < MaxOverlap /\ ExecuteCommand(CmdEchoHello, Null)
  \/ \E e \in 1..Len(execs), t \in OverlapChunks : StdoutData(e, t)
  \/ \E e \in 1..Len(execs), t \in OverlapChunks : StderrData(e, t)
  \/ \E e \in 1..Len(execs) : OnClose(e, ExitCode(0))

SpecOverlap == Init /\ [][NextOverlap]_vars

\* C28: every execution has its own line buffers and process state.  A step
\* changes the state of at most one execution; a stream's buffer changes only
\* when that stream of that process receives a chunk; and the lines emitted
\* for a stream of an execution, followed by its unflushed buffer, are the
\* non-empty lines of the text that this process wrote to this stream, with no
\* character of any other process or stream among them.
C28_ExecutionsIsolated ==
  [][\A e \in Execs :
       /\ execs'[e] # execs[e] =>
            \A f \in Execs \ {e} : execs'[f] = execs[f]
       /\ \A st \in Streams :
            /\ TextOf(e, st)' = TextOf(e, st) => BufferOf(e, st)' = BufferOf(e, st)
            /\ LinesIn(sent', e, st)
                 \o (IF ~execs'[e].closed /\ BufferOf(e, st)' # <<>>
                     THEN <<BufferOf(e, st)'>> ELSE <<>>)
               = NonEmptyLines(SplitOn(Normalize(TextOf(e, st)'), LF))]_vars

\* Two processes run at once; the first has written `x`, the second `y` and
\* a line end: `x` waits in the first buffer and `y` was emitted for the
\* second.
C28_Witness ==
  /\ Len(execs) = 2
  /\ ~execs[1].closed /\ ~execs[2].closed
  /\ execs[1].stdoutText = <<"x">> /\ execs[1].stdoutBuffer = <<"x">>
  /\ execs[2].stdoutText = <<"y", LF>> /\ execs[2].stdoutBuffer = <<>>
  /\ LinesOf(1, "stdout") = <<>>
  /\ LinesOf(2, "stdout") = << <<"y">> >>

\* ------------------------------------------------------ one execution at a time
\* The Result of execution e has been handled by the renderer.
ResultHandled(e) == \E i \in CompletesOf(e) : i <= ui.delivered

\* The executions of commands that the renderer started and whose Result it
\* has not handled yet.
InFlight == {e \in Execs : execs[e].handler # "install" /\ ~ResultHandled(e)}

\* C21 (as claimed): at most one execution is in flight at any time: between
\* the start of an execution from a command button, the verify button or the
\* custom command input and the handling of its Result, none of these
\* controls starts another one.
C21_OneExecutionInFlight == Cardinality(InFlight) <= 1

\* ------------------------------------------------- lines without attribution
\* The step delivers the next event to the renderer, and it is a line event.
DeliversLine ==
  /\ ui'.delivered = ui.delivered + 1
  /\ IsLine(sent[ui.delivered + 1])

\* C22: a delivered line event reaches every output listener registered at
\* that moment, whichever process produced the line: each of them appends
\* the line to its own output element (with the mark of a directory hint
\* after it when it carried one), and the listeners that are not registered
\* append nothing.
C22_LinesReachEveryListener ==
  [][DeliversLine =>
       \A i \in DOMAIN ui.listeners :
         LET before == ui.listeners[i].lines
             after  == ui'.listeners[i].lines
         IN IF ui.listeners[i].output
            THEN /\ Len(after) = Len(before) + 1
                 /\ SubSeq(after, 1, Len(before)) = before
                 /\ IsPrefix(sent[ui.delivered + 1].line, after[Len(after)])
            ELSE after = before]_vars

\* Two executions overlap, both listening: the one line delivered so far was
\* produced by the process of the first and stands in the output elements of
\* both.
C22_Witness ==
  /\ Len(ui.listeners) = 2
  /\ \A i \in 1..2 : ui.listeners[i].kind = "execute" /\ ui.listeners[i].output
  /\ ~execs[1].closed /\ ~execs[2].closed
  /\ ui.delivered = 1
  /\ IsLine(sent[1]) /\ sent[1].id = 1
  /\ ui.listeners[1].lines = <<sent[1].line>>
  /\ ui.listeners[2].lines = <<sent[1].line>>

\* --------------------------------------------------- lines that are no hint
\* C27 (as claimed): a delivered line that does not have the directory-hint
\* form leaves the tracked working directory unchanged, is appended as it is
\* to the output element of every registered listener, and changes the result
\* of no history entry.
C27_NonHintLineForwardedUnchanged ==
  [][(DeliversLine /\ ui.initialized /\ ~IsHintForm(sent[ui.delivered + 1].line)) =>
       /\ ui'.currentWorkingDirectory = ui.currentWorkingDirectory
       /\ \A i \in DOMAIN ui.listeners :
            ui.listeners[i].output =>
              ui'.listeners[i].lines
                = Append(ui.listeners[i].lines, sent[ui.delivered + 1].line)
       /\ ui'.history = ui.history]_vars

\* ------------------------------------------------------ the install trigger
\* The step is a click on the install button: it adds the installer's entry.
InstallClicked ==
  /\ Len(ui'.history) = Len(ui.history) + 1
  /\ ui'.history[Len(ui'.history)] = InstallEntry

\* The installer processes that are still running.
RunningInstalls == {e \in Execs : execs[e].handler = "install" /\ ~execs[e].closed}

\* C29 (as claimed): the click on the install button leaves the button
\* enabled.
C29_TriggerEnabledAfterClick ==
  [][InstallClicked => InstallGitMasteryBtn \notin ui'.disabled]_vars

\* C29 (amended): the click on the install button disables it, and a disabled
\* install button is enabled again only by the step in which the renderer
\* handles a command-complete event; every click that starts an installer
\* finds the button enabled.
C29_TriggerDisabledUntilResult ==
  [][/\ InstallClicked =>
          /\ InstallGitMasteryBtn \notin ui.disabled
          /\ InstallGitMasteryBtn \in ui'.disabled
     /\ (InstallGitMasteryBtn \in ui.disabled /\ InstallGitMasteryBtn \notin ui'.disabled) =>
          /\ ui'.delivered = ui.delivered + 1
          /\ IsComplete(sent[ui.delivered + 1])]_vars

\* The Result of a verify command that overlapped the installation enabled
\* the install button again, and a second click started a second installer
\* while the first is still running.
C29_Witness ==
  /\ Cardinality(RunningInstalls) = 2
  /\ \E i \in 1..ui.delivered :
       IsComplete(sent[i]) /\ execs[sent[i].id].handler # "install"
  /\ InstallGitMasteryBtn \in ui.disabled

\* ------------------------------------------------ custom path and directory
\* The step adds a history entry of a completed selection.
SelectionAdded(command) ==
  /\ Len(ui'.history) = Len(ui.history) + 1
  /\ ui'.history[Len(ui'.history)].command = <<command>>

\* The path that entry reports.
SelectedPath == Tail(ui'.history[Len(ui'.history)].result.output)

\* C30: the custom executable path and the custom working directory change
\* only in a step that completes a file or folder selection, which sets the
\* one value to the path chosen in that step, whatever it was before, and
\* leaves the other alone; a dialog that was cancelled or returned no path,
\* and an invocation without a window, return null, and a selection that
\* returns null reports nothing and changes neither value.
C30_OnlySelectionChangesCustomValues ==
  [][/\ customExePath' # customExePath =>
          /\ SelectionAdded("Set Executable Path")
          /\ customWorkingDir' = customWorkingDir
     /\ customWorkingDir' # customWorkingDir =>
          /\ SelectionAdded("Set Working Directory")
          /\ customExePath' = customExePath
     /\ SelectionAdded("Set Executable Path") => customExePath' = Some(SelectedPath)
     /\ SelectionAdded("Set Working Directory") => customWorkingDir' = Some(SelectedPath)
     /\ \A c \in BOOLEAN, p \in FileChoices \cup FolderChoices :
          /\ (c \/ p = <<>> \/ ~mainWindow) => DialogReturn(c, p) = Null
          /\ ~(c \/ p = <<>> \/ ~mainWindow) => DialogReturn(c, p) = Some(p[1])]_vars

\* Two folder selections in a row, /w/a and then /w/b: the custom working
\* directory is the one chosen last.
C30_Witness ==
  /\ Len(ui.history) = 2
  /\ ui.history[1] = SelectionEntry("Set Working Directory", "Working directory set to: ", DirA)
  /\ ui.history[2] = SelectionEntry("Set Working Directory", "Working directory set to: ", DirB)
  /\ customWorkingDir = Some(DirB)
  /\ customExePath = Null

\* ------------------------------------------------ tracked directory kept
\* C35 (as claimed): once the renderer has read its working directory, which
\* is a non-empty path, no sequence of typed `cd` commands leaves the tracked
\* working directory empty.
C35_TrackedDirectoryNeverEmpty ==
  ui.initialized => ui.currentWorkingDirectory # <<>>

\* ------------------------------------------------- results of overlapping runs
\* Every start of a process in the renderer (executeCommand, the installer
\* click) appends one listener pair and one process, so the i-th listener
\* pair was registered for the i-th execution.
ListenerOf(e) == ui.listeners[e]

\* The step delivers the next event to the renderer, and it is the Result of
\* execution e.
DeliversResultOf(e) ==
  /\ ui.delivered < Len(sent)
  /\ ui'.delivered = ui.delivered + 1
  /\ IsComplete(sent[ui.delivered + 1])
  /\ sent[ui.delivered + 1].id = e

\* The history entries that the step finalises: their result is replaced.
Finalised ==
  {k \in DOMAIN ui.history : ui'.history[k].result # ui.history[k].result}

\* C31 (as claimed): the Result of an execution is handled by at least one
\* completion listener, and the only history entry it can finalise is the
\* entry of that execution, also while another execution is running.
C31_ResultFinalisesOwnEntry ==
  [][\A e \in Execs :
       (e \in DOMAIN ui.listeners /\ DeliversResultOf(e))
         => /\ \E i \in DOMAIN ui.listeners : ui.listeners[i].complete
            /\ Finalised \subseteq {ListenerOf(e).entry}]_vars

\* --------------------------------------------- hints with several listeners
\* The command buttons and the verify button running commands whose output
\* is the directory hint `cd sub`.
NextHintListeners ==
  \/ \E found \in BOOLEAN : InitializeCwd(found)
  \/ /\ Len(ui.history) < MaxUICommands
     /\ \/ CommandButtonClick(CmdGitRemote)
        \/ VerifyClick
  \/ \E e \in 1..Len(execs) : StdoutData(e, HintCdSub)
  \/ \E e \in 1..Len(execs) : OnClose(e, ExitCode(0))
  \/ DeliverEvent

SpecHintListeners == Init /\ [][NextHintListeners]_vars

\* The step delivers the next event to the renderer, and it is a line event
\* whose line is a directory hint, while an output listener of a command is
\* registered and the renderer has read its working directory.
DeliversHint ==
  /\ ui.initialized
  /\ ui.delivered < Len(sent)
  /\ ui'.delivered = ui.delivered + 1
  /\ IsLine(sent[ui.delivered + 1])
  /\ parseOutputForCd(sent[ui.delivered + 1].line).some
  /\ OutputListeners(ui.listeners) >= 1

\* C32 (as claimed): one line event that carries a directory hint moves the
\* tracked working directory by that hint once, from B to resolvePath(hint, B),
\* whatever the number of output listeners registered at that moment.
C32_HintAppliedOnce ==
  [][DeliversHint
       => ui'.currentWorkingDirectory =
            resolvePath(parseOutputForCd(sent[ui.delivered + 1].line).val,
                        ui.currentWorkingDirectory)]_vars

\* ---------------------------------------------------- re-enabling a control
\* The step re-enables the control that started execution e: the control was
\* disabled by that start, its listeners are still registered, and it is
\* enabled after the step.
Reenables(e) ==
  /\ ListenerOf(e).complete
  /\ ListenerOf(e).button \in ui.disabled
  /\ ListenerOf(e).button \notin ui'.disabled

\* C33 (as claimed): a button that started an execution stays disabled until
\* the Result of that same execution is handled: the only step that
\* re-enables it is the delivery of that execution's Result, never the
\* delivery of the Result of a different execution.
C33_ReenabledByOwnResultOnly ==
  [][\A e \in DOMAIN ui.listeners : Reenables(e) => DeliversResultOf(e)]_vars

\* ------------------------------------------------------- listener hygiene
\* The step removes the two listeners of execution e.
Unregisters(e) ==
  /\ ListenerOf(e).output /\ ListenerOf(e).complete
  /\ ~ui'.listeners[e].output /\ ~ui'.listeners[e].complete

\* No output or completion listener is registered.
NoListenerRegistered ==
  \A i \in DOMAIN ui.listeners : ~ui.listeners[i].output /\ ~ui.listeners[i].complete

\* The renderer has handled the Result of every execution it started.
NothingInFlight == \A e \in Execs : ResultHandled(e)

\* Every started execution has registered one listener pair, and once
\* nothing is in flight no listener is left.
ListenersMatchExecutions ==
  /\ Len(ui.listeners) = Len(execs)
  /\ NothingInFlight => NoListenerRegistered

\* C34 (as claimed): every execution registers one output and one completion
\* listener and removes both exactly in the step that handles its own Result,
\* and whenever no execution is in flight no listener remains registered.
C34_ListenersRemovedWithOwnResult ==
  [][/\ \A e \in DOMAIN ui.listeners : Unregisters(e) <=> DeliversResultOf(e)
     /\ ListenersMatchExecutions']_vars

====
